---------------------------- MODULE Spec2Model ----------------------------
(***************************************************************************)
(* Model of the Longan Labs I2C-CAN bridge driver (src/src/lib.rs).        *)
(*                                                                         *)
(* The driver is the pair (interface, address).  Every public operation   *)
(* is an async fn that suspends at each transport write/read; the model    *)
(* has one program position per await and one action per continuation.    *)
(* The transport and the bridge are the environment: a transport call      *)
(* succeeds only when it addresses the bridge, may fail with any transport *)
(* error, and an awaiting operation may be dropped (cancelled) before or   *)
(* after the bridge has seen the in-flight transaction.                    *)
(*                                                                         *)
(* u32 values are kept as two 16-bit halves [hi, lo] so that the 32-bit    *)
(* arithmetic of make_checksum (!sum, sum += 1) is modelled at full width. *)
(* Rust slices are 0-based, TLA+ sequences 1-based: buffer[k] in the       *)
(* source is buffer[k+1] here.                                             *)
(***************************************************************************)
EXTENDS Integers, Sequences, FiniteSets

VARIABLES
    address,        \* LonganLabsI2CCan::address
    pc,             \* the await the running operation is suspended at, "returned", or "idle"
    op,             \* the public operation running (or last run)
    arg,            \* its argument: [value: u8, rate: BaudRate name, frame: <<CanFrame>>]
    calls,          \* transport calls issued by that operation, in order
    result,         \* what the operation returned
    lastSet,        \* history: address of the last successful set_addres (or construction)
    bridgeAddress,  \* bridge: the I2C address it answers at
    stored          \* bridge: number of CAN frames stored in the device

vars == <<address, pc, op, arg, calls, result, lastSet, bridgeAddress, stored>>

---------------------------------------------------------------------------
(* Bounds and program constants *)

\* receive_frame: number of try_receive_frame rounds explored per call
MaxPolls == 2

DEFAULT_ADDRESS == 37

\* "The I2C CAN Bus Module can store up to 16 CAN Frames."
BridgeCapacity == 16

\* ArrayVec<u8, 8>
DataCapacity == 8

---------------------------------------------------------------------------
(* u32 arithmetic on [hi, lo] halves *)

Half == 2^16

U32(h, l) == [hi |-> h, lo |-> l]

u32_from_u8(b) == U32(0, b)

\* wrapping sum and whether it wrapped
u32_add(a, b) ==
    LET l == a.lo + b.lo
        h == a.hi + b.hi + (l \div Half)
    IN  [val |-> U32(h % Half, l % Half), overflow |-> h >= Half]

u32_not(a) == U32((Half - 1) - a.hi, (Half - 1) - a.lo)

u32_gt_0xFF(a) == a.hi > 0 \/ a.lo > 255

u32_and_0xFF(a) == a.lo % 256

\* u32::to_be_bytes
to_be_bytes(a) == <<a.hi \div 256, a.hi % 256, a.lo \div 256, a.lo % 256>>

\* mutant: the four bytes taken least significant first
from_le_bytes(b) == U32(b[4] * 256 + b[3], b[2] * 256 + b[1])

\* u32::from_be_bytes
from_be_bytes(b) == U32(b[1] * 256 + b[2], b[3] * 256 + b[4])

\* bool as u8
bool_as_u8(b) == IF b THEN 1 ELSE 0

---------------------------------------------------------------------------
(* make_checksum *)

\* data.iter().map(|byte| *byte as u32).sum() : [val, overflow]
iter_sum(data) ==
    LET acc[n \in 0..Len(data)] ==
            IF n = 0 THEN [val |-> U32(0, 0), overflow |-> FALSE]
            ELSE LET rest == acc[n - 1]
                     s    == u32_add(rest.val, u32_from_u8(data[n]))
                 IN  [val |-> s.val, overflow |-> rest.overflow \/ s.overflow]
    IN  acc[Len(data)]

\* mutant: the sum complemented but not incremented
checksum_steps_not_incremented(data) ==
    LET s0 == iter_sum(data)
    IN  IF u32_gt_0xFF(s0.val)
        THEN [sum |-> u32_not(s0.val), overflow |-> s0.overflow]
        ELSE [sum |-> s0.val, overflow |-> s0.overflow]

\* the whole routine, with the overflow status of its u32 additions
checksum_steps(data) ==
    LET s0 == iter_sum(data)
    IN  IF u32_gt_0xFF(s0.val)
        THEN LET neg == u32_add(u32_not(s0.val), U32(0, 1))
             IN  [sum |-> neg.val, overflow |-> s0.overflow \/ neg.overflow]
        ELSE [sum |-> s0.val, overflow |-> s0.overflow]

make_checksum(data) == u32_and_0xFF(checksum_steps(data).sum)

---------------------------------------------------------------------------
(* CanFrame and the frame codec *)

CanFrame(i, e, r, d) ==
    [id |-> i, extended_id |-> e, remote_transmission_request |-> r, data |-> d]

\* buffer[start..][..src.len()].copy_from_slice(src), start 1-based
copy_from_slice(buffer, start, src) ==
    [i \in 1..Len(buffer) |->
        IF i >= start /\ i < start + Len(src) THEN src[i - start + 1] ELSE buffer[i]]

\* mutant: the checksum computed before the payload is copied in
send_buffer_checksum_early(frame) ==
    LET b0 == [i \in 1..17 |-> 0]
        b1 == [b0 EXCEPT ![1] = 48]
        b2 == copy_from_slice(b1, 2, to_be_bytes(frame.id))
        b3 == [b2 EXCEPT ![6] = bool_as_u8(frame.extended_id)]
        b4 == [b3 EXCEPT ![7] = bool_as_u8(frame.remote_transmission_request)]
        b5 == [b4 EXCEPT ![8] = Len(frame.data) % 256]
        b6 == [b5 EXCEPT ![17] = make_checksum(SubSeq(b5, 2, 16))]
    IN  copy_from_slice(b6, 9, frame.data)

\* the 17-byte buffer send_frame builds
send_buffer(frame) ==
    LET b0 == [i \in 1..17 |-> 0]
        b1 == [b0 EXCEPT ![1] = 48]
        b2 == copy_from_slice(b1, 2, to_be_bytes(frame.id))
        b3 == [b2 EXCEPT ![6] = bool_as_u8(frame.extended_id)]
        b4 == [b3 EXCEPT ![7] = bool_as_u8(frame.remote_transmission_request)]
        b5 == [b4 EXCEPT ![8] = Len(frame.data) % 256]
        b6 == copy_from_slice(b5, 9, frame.data)
    IN  [b6 EXCEPT ![17] = make_checksum(SubSeq(b6, 2, 16))]

\* Result values: Ok(()) is Ok(0, <<>>), Ok(n) is Ok(n, <<>>), Ok(None) is
\* Ok(0, <<>>), Ok(Some(frame)) and Ok(frame) are Ok(0, <<frame>>)
Ok(c, f)  == [tag |-> "Ok", count |-> c, frame |-> f, err |-> "none", inner |-> "none"]

\* enum Error<IE> and From<IE>
InterfaceError(e) ==
    [tag |-> "Err", count |-> 0, frame |-> <<>>, err |-> "InterfaceError", inner |-> e]
InvalidChecksum ==
    [tag |-> "Err", count |-> 0, frame |-> <<>>, err |-> "InvalidChecksum", inner |-> "none"]
DataTooLarge ==
    [tag |-> "Err", count |-> 0, frame |-> <<>>, err |-> "DataTooLarge", inner |-> "none"]

\* the future was dropped / has not completed: no value
Cancelled == [tag |-> "Cancelled", count |-> 0, frame |-> <<>>, err |-> "none", inner |-> "none"]
NoResult  == [tag |-> "Pending", count |-> 0, frame |-> <<>>, err |-> "none", inner |-> "none"]

\* a panic unwinds out of the operation: no value
Panicked  == [tag |-> "Panic", count |-> 0, frame |-> <<>>, err |-> "none", inner |-> "none"]

\* <[u8; 4]>::try_from(slice) is Ok
try_into_4(slice) == Len(slice) = 4

\* buffer[from..][..n] is in range (from 0-based)
slice_in_range(buffer, from, n) == from + n <= Len(buffer)

\* ArrayVec::<u8, 8>::try_from(slice) is Ok
array_vec_try_from(slice) == Len(slice) <= DataCapacity

\* mutant: the length checked before the checksum
decode_length_first(buffer) ==
    LET checksum == make_checksum(SubSeq(buffer, 1, 15))
        data_len == buffer[7]
        data == SubSeq(buffer, 8, 7 + data_len)
    IN  IF data_len > DataCapacity THEN DataTooLarge
        ELSE IF buffer[16] # checksum THEN InvalidChecksum
        ELSE IF ~try_into_4(SubSeq(buffer, 1, 4)) THEN Panicked
        ELSE IF ~slice_in_range(buffer, 7, data_len) THEN Panicked
        ELSE IF ~array_vec_try_from(data) THEN Panicked
        ELSE Ok(0, <<CanFrame(from_be_bytes(SubSeq(buffer, 1, 4)), buffer[5] > 0,
                              buffer[6] > 0, data)>>)

\* mutant: the length compared with the 9 bytes that follow it in the buffer
decode_length_limit_9(buffer) ==
    LET checksum == make_checksum(SubSeq(buffer, 1, 15))
        data_len == buffer[7]
        data == SubSeq(buffer, 8, 7 + data_len)
    IN  IF buffer[16] # checksum THEN InvalidChecksum
        ELSE IF ~try_into_4(SubSeq(buffer, 1, 4)) THEN Panicked
        ELSE IF data_len > DataCapacity + 1 THEN DataTooLarge
        ELSE IF ~slice_in_range(buffer, 7, data_len) THEN Panicked
        ELSE IF ~array_vec_try_from(data) THEN Panicked
        ELSE Ok(0, <<CanFrame(from_be_bytes(SubSeq(buffer, 1, 4)), buffer[5] > 0,
                              buffer[6] > 0, data)>>)

\* mutant: extended_id and remote_transmission_request taken as byte == 1
decode_flag_equals_1(buffer) ==
    LET checksum == make_checksum(SubSeq(buffer, 1, 15))
        data_len == buffer[7]
        data == SubSeq(buffer, 8, 7 + data_len)
    IN  IF buffer[16] # checksum THEN InvalidChecksum
        ELSE IF ~try_into_4(SubSeq(buffer, 1, 4)) THEN Panicked
        ELSE IF data_len > DataCapacity THEN DataTooLarge
        ELSE IF ~slice_in_range(buffer, 7, data_len) THEN Panicked
        ELSE IF ~array_vec_try_from(data) THEN Panicked
        ELSE Ok(0, <<CanFrame(from_be_bytes(SubSeq(buffer, 1, 4)), buffer[5] = 1,
                              buffer[6] = 1, data)>>)

\* mutant: the data taken from byte 8 on
decode_data_from_8(buffer) ==
    LET checksum == make_checksum(SubSeq(buffer, 1, 15))
        data_len == buffer[7]
        data == SubSeq(buffer, 9, 8 + data_len)
    IN  IF buffer[16] # checksum THEN InvalidChecksum
        ELSE IF ~try_into_4(SubSeq(buffer, 1, 4)) THEN Panicked
        ELSE IF data_len > DataCapacity THEN DataTooLarge
        ELSE IF ~slice_in_range(buffer, 8, data_len) THEN Panicked
        ELSE IF ~array_vec_try_from(data) THEN Panicked
        ELSE Ok(0, <<CanFrame(from_be_bytes(SubSeq(buffer, 1, 4)), buffer[5] > 0,
                              buffer[6] > 0, data)>>)

\* try_receive_frame after the 16-byte read (lines 80-103): the checksum
\* check, the id (try_into().unwrap()), the flags, the length check, the data
\* (slice, ArrayVec::try_from(..).unwrap())
decode(buffer) ==
    LET checksum == make_checksum(SubSeq(buffer, 1, 15))
        id_bytes == SubSeq(buffer, 1, 4)
        extended_id == buffer[5] > 0
        remote_transmission_request == buffer[6] > 0
        data_len == buffer[7]
        data == SubSeq(buffer, 8, 7 + data_len)
    IN  IF buffer[16] # checksum THEN InvalidChecksum
        ELSE IF ~try_into_4(id_bytes) THEN Panicked
        ELSE IF data_len > DataCapacity THEN DataTooLarge
        ELSE IF ~slice_in_range(buffer, 7, data_len) THEN Panicked
        ELSE IF ~array_vec_try_from(data) THEN Panicked
        ELSE Ok(0, <<CanFrame(from_be_bytes(id_bytes), extended_id,
                              remote_transmission_request, data)>>)

---------------------------------------------------------------------------
(* Inputs explored *)

\* addresses the driver is constructed with (new, new_with_address)
InitialAddresses == {DEFAULT_ADDRESS, 48}

\* addresses given to set_addres
Addresses == {48, 80}

\* #[repr(u8)] enum BaudRate: name |-> discriminant
BaudRate ==
    [K5 |-> 1, K10 |-> 2, K20 |-> 3, K25 |-> 4, K31_2 |-> 5, K33 |-> 6,
     K40 |-> 7, K50 |-> 8, K80 |-> 9, K83_3 |-> 10, K95 |-> 11, K100 |-> 12,
     K125 |-> 13, K200 |-> 14, K250 |-> 15, K500 |-> 16, K666 |-> 17,
     K1000 |-> 18]

\* errors of the I2c transport (I::Error)
I2cErrors == {"NoAcknowledge", "Bus"}

\* identifiers 0x123, 0x7FF, 0x12345678, 0x1FFFFFFF, 0xFFFFFFFF and the four
\* bytes each has on the wire, most significant first
IdBytes ==
    { <<U32(0, 291),       <<0, 0, 1, 35>>>>,
      <<U32(0, 2047),      <<0, 0, 7, 255>>>>,
      <<U32(4660, 22136),  <<18, 52, 86, 120>>>>,
      <<U32(8191, 65535),  <<31, 255, 255, 255>>>>,
      <<U32(65535, 65535), <<255, 255, 255, 255>>>> }

Ids == { p[1] : p \in IdBytes }

wire_id(id) == (CHOOSE p \in IdBytes : p[1] = id)[2]

\* payloads of 0..=8 bytes
Datas ==
    { <<>>, <<254>>, <<170, 187>>, <<222, 173, 190, 239>>,
      <<0, 0, 0, 0, 0, 0, 0, 0>>, <<255, 255, 255, 255, 255, 255, 255, 255>> }

Frames == { CanFrame(i, e, r, d) : i \in Ids, e \in BOOLEAN, r \in BOOLEAN, d \in Datas }

\* frames the bridge has received from the CAN bus
RxFrames ==
    { f \in Frames :
        /\ <<f.id, f.extended_id>> \in
              {<<U32(0, 2047), FALSE>>, <<U32(4660, 22136), TRUE>>, <<U32(65535, 65535), TRUE>>}
        /\ f.data \in {<<>>, <<170, 187>>, <<255, 255, 255, 255, 255, 255, 255, 255>>} }

byte_sum(bytes) ==
    LET total[n \in 0..Len(bytes)] == IF n = 0 THEN 0 ELSE total[n - 1] + bytes[n]
    IN  total[Len(bytes)]

\* the bridge's checksum: the sum when it fits one byte, otherwise the low byte
\* of its two's-complement negation
wire_checksum(bytes) ==
    LET s == byte_sum(bytes)
    IN  IF s > 255 THEN (256 - (s % 256)) % 256 ELSE s

zeros(n) == [i \in 1..n |-> 0]

\* 16 bytes with the last one the checksum of the 15 before it
sealed(body) == body \o <<wire_checksum(body)>>

\* the bridge's 16-byte encoding of a frame:
\* id[4 BE] | ext | rtr | dlc | data[8, zero-padded] | checksum
wire_frame(f) ==
    sealed(wire_id(f.id)
           \o <<IF f.extended_id THEN 1 ELSE 0,
                IF f.remote_transmission_request THEN 1 ELSE 0,
                Len(f.data)>>
           \o f.data \o zeros(8 - Len(f.data)))

with_byte(buffer, k, b) == [buffer EXCEPT ![k] = b]

flip_bit(b, k) == IF (b \div k) % 2 = 1 THEN b - k ELSE b + k

\* 16-byte reads the transport may deliver: encoded frames; the same with one
\* bit of the checksum byte flipped; with a length byte above 8, the checksum
\* stale or right; with flag bytes other than 0/1; all ones
Responses ==
    LET good == { wire_frame(f) : f \in RxFrames }
        some == { wire_frame(CanFrame(U32(0, 2047), FALSE, FALSE, <<>>)),
                  wire_frame(CanFrame(U32(0, 2047), FALSE, TRUE, <<170, 187>>)),
                  wire_frame(CanFrame(U32(65535, 65535), FALSE, FALSE,
                                      <<255, 255, 255, 255, 255, 255, 255, 255>>)) }
        flip == { with_byte(b, 16, flip_bit(b[16], k)) : b \in some, k \in {1, 128} }
        long == { with_byte(b, 7, n) : b \in some, n \in {9, 255} }
        flag == { with_byte(with_byte(b, 5, x[1]), 6, x[2]) :
                    b \in some, x \in {<<2, 0>>, <<255, 128>>} }
        ones == { [i \in 1..16 |-> 255] }
        reseal(S) == { sealed(SubSeq(b, 1, 15)) : b \in S }
    IN  good \cup flip \cup long \cup reseal(long) \cup reseal(flag) \cup ones \cup reseal(ones)

---------------------------------------------------------------------------
(* Transport calls *)

\* mutant: the write addressed to the default address
write_default_address(bytes) ==
    [kind |-> "write", addr |-> DEFAULT_ADDRESS, bytes |-> bytes, outcome |-> "pending"]

\* self.interface.write(self.address, bytes)
write(bytes) == [kind |-> "write", addr |-> address, bytes |-> bytes, outcome |-> "pending"]

\* mutant: reads addressed to the default address whatever the stored one is
read_default_address(n) ==
    [kind |-> "read", addr |-> DEFAULT_ADDRESS, bytes |-> zeros(n), outcome |-> "pending"]

\* self.interface.read(self.address, &mut [0; n])
read(n) == [kind |-> "read", addr |-> address, bytes |-> zeros(n), outcome |-> "pending"]

InFlight == calls[Len(calls)]

\* the log with the in-flight call finished
settled(outcome, bytes) ==
    [calls EXCEPT ![Len(calls)] = [@ EXCEPT !.outcome = outcome, !.bytes = bytes]]

\* the bridge acknowledges transactions at its own address only
Acked == InFlight.addr = bridgeAddress

\* bridge: command 0x01 changes the address it answers at
bridge_address_after(call) ==
    IF call.kind = "write" /\ call.bytes[1] = 1 THEN call.bytes[2] ELSE bridgeAddress

\* bridge: reading a frame out (the 16-byte read after 0x40) frees its slot
bridge_stored_after(call) ==
    IF call.kind = "read" /\ Len(call.bytes) = 16 /\ stored > 0 THEN stored - 1 ELSE stored

NoArg == [value |-> 0, rate |-> "none", frame |-> <<>>]

\* try_receive_frame rounds begun by the running operation
Rounds == Cardinality({ i \in DOMAIN calls : calls[i].kind = "write" /\ calls[i].bytes = <<2>> })

---------------------------------------------------------------------------
(* Construction *)

\* new (DEFAULT_ADDRESS) or new_with_address, the bridge being at that address
Init ==
    /\ address \in InitialAddresses
    /\ lastSet = address
    /\ bridgeAddress = address
    /\ stored \in {0, 1}
    /\ pc = "idle"
    /\ op = "none"
    /\ arg = NoArg
    /\ calls = <<>>
    /\ result = NoResult

\* a public operation is called: its code up to the first await
enter(name, a, first) ==
    /\ pc = "idle"
    /\ op' = name
    /\ arg' = a
    /\ calls' = <<first>>
    /\ result' = NoResult
    /\ UNCHANGED <<address, lastSet, bridgeAddress, stored>>

\* the operation returns
return(r) ==
    /\ pc' = "returned"
    /\ result' = r

Awaiting == pc \notin {"idle", "returned"}

\* the caller has the result and is free to call the next operation
caller_continues ==
    /\ pc = "returned"
    /\ pc' = "idle"
    /\ op' = "none"
    /\ arg' = NoArg
    /\ calls' = <<>>
    /\ result' = NoResult
    /\ UNCHANGED <<address, lastSet, bridgeAddress, stored>>

---------------------------------------------------------------------------
(* set_addres *)

\* mutant: the command written to the new address
set_addres_call_to_new_address(value) ==
    /\ enter("set_addres", [NoArg EXCEPT !.value = value],
             [kind |-> "write", addr |-> value, bytes |-> <<1, value>>, outcome |-> "pending"])
    /\ pc' = "set_addres_write"

\* mutant: self.address assigned before the write is awaited
set_addres_call_assign_first(value) ==
    /\ pc = "idle"
    /\ op' = "set_addres"
    /\ arg' = [NoArg EXCEPT !.value = value]
    /\ calls' = <<write(<<1, value>>)>>
    /\ result' = NoResult
    /\ address' = value
    /\ pc' = "set_addres_write"
    /\ UNCHANGED <<lastSet, bridgeAddress, stored>>

\* self.interface.write(self.address, &[0x01, value]) is begun
set_addres_call(value) ==
    /\ enter("set_addres", [NoArg EXCEPT !.value = value], write(<<1, value>>))
    /\ pc' = "set_addres_write"

\* the write returned Ok: self.address = value; Ok(())
set_addres_written ==
    /\ pc = "set_addres_write"
    /\ Acked
    /\ calls' = settled("ok", InFlight.bytes)
    /\ bridgeAddress' = bridge_address_after(InFlight)
    /\ address' = arg.value
    /\ lastSet' = arg.value
    /\ return(Ok(0, <<>>))
    /\ UNCHANGED <<op, arg, stored>>

---------------------------------------------------------------------------
(* available_frames, also as the first step of try_receive_frame *)

available_frames_call ==
    /\ enter("available_frames", NoArg, write(<<2>>))
    /\ pc' = "available_frames_write"

\* the [0x02] write returned Ok: read one byte
available_frames_written ==
    /\ pc = "available_frames_write"
    /\ Acked
    /\ calls' = Append(settled("ok", InFlight.bytes), read(1))
    /\ pc' = "available_frames_read"
    /\ UNCHANGED <<address, op, arg, result, lastSet, bridgeAddress, stored>>

\* mutant: the number of bytes read returned in place of the byte
available_frames_return_length ==
    /\ pc = "available_frames_read"
    /\ op = "available_frames"
    /\ Acked
    /\ calls' = settled("ok", <<stored>>)
    /\ return(Ok(Len(<<stored>>), <<>>))
    /\ UNCHANGED <<address, op, arg, lastSet, bridgeAddress, stored>>

\* the read returned Ok with the bridge's count: Ok(result[0])
available_frames_return ==
    /\ pc = "available_frames_read"
    /\ op = "available_frames"
    /\ Acked
    /\ calls' = settled("ok", <<stored>>)
    /\ return(Ok(stored, <<>>))
    /\ UNCHANGED <<address, op, arg, lastSet, bridgeAddress, stored>>

---------------------------------------------------------------------------
(* set_can_baud_rate *)

\* mutant: the rate's position in the enumeration, counted from 0, sent as its code
set_can_baud_rate_call_from_0(value) ==
    /\ enter("set_can_baud_rate", [NoArg EXCEPT !.rate = value],
             write(<<3, BaudRate[value] - 1>>))
    /\ pc' = "set_can_baud_rate_write"

set_can_baud_rate_call(value) ==
    /\ enter("set_can_baud_rate", [NoArg EXCEPT !.rate = value],
             write(<<3, BaudRate[value]>>))
    /\ pc' = "set_can_baud_rate_write"

set_can_baud_rate_written ==
    /\ pc = "set_can_baud_rate_write"
    /\ Acked
    /\ calls' = settled("ok", InFlight.bytes)
    /\ return(Ok(0, <<>>))
    /\ UNCHANGED <<address, op, arg, lastSet, bridgeAddress, stored>>

---------------------------------------------------------------------------
(* send_frame *)

send_frame_call(frame) ==
    /\ enter("send_frame", [NoArg EXCEPT !.frame = <<frame>>], write(send_buffer(frame)))
    /\ pc' = "send_frame_write"

send_frame_written ==
    /\ pc = "send_frame_write"
    /\ Acked
    /\ calls' = settled("ok", InFlight.bytes)
    /\ return(Ok(0, <<>>))
    /\ UNCHANGED <<address, op, arg, lastSet, bridgeAddress, stored>>

---------------------------------------------------------------------------
(* try_receive_frame, also as the body of the receive_frame loop *)

try_receive_frame_call ==
    /\ enter("try_receive_frame", NoArg, write(<<2>>))
    /\ pc' = "available_frames_write"

\* mutant: the count not compared with 0, the frame read regardless
try_receive_frame_none_reads ==
    /\ pc = "available_frames_read"
    /\ op = "try_receive_frame"
    /\ Acked
    /\ stored = 0
    /\ calls' = Append(settled("ok", <<stored>>), write(<<64>>))
    /\ pc' = "try_receive_frame_write"
    /\ UNCHANGED <<address, op, arg, result, lastSet, bridgeAddress, stored>>

\* available_frames returned 0: return Ok(None)
try_receive_frame_none ==
    /\ pc = "available_frames_read"
    /\ op = "try_receive_frame"
    /\ Acked
    /\ stored = 0
    /\ calls' = settled("ok", <<stored>>)
    /\ return(Ok(0, <<>>))
    /\ UNCHANGED <<address, op, arg, lastSet, bridgeAddress, stored>>

\* mutant: the frame read without the [0x40] command before it
try_receive_frame_some_no_command ==
    /\ pc = "available_frames_read"
    /\ op \in {"try_receive_frame", "receive_frame"}
    /\ Acked
    /\ stored # 0
    /\ calls' = Append(settled("ok", <<stored>>), read(16))
    /\ pc' = "try_receive_frame_read"
    /\ UNCHANGED <<address, op, arg, result, lastSet, bridgeAddress, stored>>

\* mutant: the frame command sent when the count is at most 1 as well
try_receive_frame_some_from_0 ==
    /\ pc = "available_frames_read"
    /\ op \in {"try_receive_frame", "receive_frame"}
    /\ Acked
    /\ stored <= 1
    /\ calls' = Append(settled("ok", <<stored>>), write(<<64>>))
    /\ pc' = "try_receive_frame_write"
    /\ UNCHANGED <<address, op, arg, result, lastSet, bridgeAddress, stored>>

\* available_frames returned a count other than 0: write [0x40]
try_receive_frame_some ==
    /\ pc = "available_frames_read"
    /\ op \in {"try_receive_frame", "receive_frame"}
    /\ Acked
    /\ stored # 0
    /\ calls' = Append(settled("ok", <<stored>>), write(<<64>>))
    /\ pc' = "try_receive_frame_write"
    /\ UNCHANGED <<address, op, arg, result, lastSet, bridgeAddress, stored>>

\* the [0x40] write returned Ok: read 16 bytes
try_receive_frame_written ==
    /\ pc = "try_receive_frame_write"
    /\ Acked
    /\ calls' = Append(settled("ok", InFlight.bytes), read(16))
    /\ pc' = "try_receive_frame_read"
    /\ UNCHANGED <<address, op, arg, result, lastSet, bridgeAddress, stored>>

\* lines 81-103 applied to each buffer the 16-byte read can fill
decoded == [buffer \in Responses |-> decode(buffer)]

\* mutant: receive_frame starts a new round when a round ends with a decode error
try_receive_frame_read_done_retry(buffer) ==
    /\ pc = "try_receive_frame_read"
    /\ Acked
    /\ stored' = bridge_stored_after(InFlight)
    /\ IF op = "receive_frame" /\ decoded[buffer].tag = "Err" /\ Rounds < MaxPolls
       THEN /\ calls' = Append(settled("ok", buffer), write(<<2>>))
            /\ pc' = "available_frames_write"
            /\ UNCHANGED result
       ELSE /\ calls' = settled("ok", buffer)
            /\ return(decoded[buffer])
    /\ UNCHANGED <<address, op, arg, lastSet, bridgeAddress>>

\* mutant: a response with a wrong checksum is read from the bridge once more
try_receive_frame_read_done_again(buffer) ==
    /\ pc = "try_receive_frame_read"
    /\ Acked
    /\ stored' = bridge_stored_after(InFlight)
    /\ IF decoded[buffer] = InvalidChecksum /\ Len(calls) <= 4
       THEN /\ calls' = Append(settled("ok", buffer), write(<<64>>))
            /\ pc' = "try_receive_frame_write"
            /\ UNCHANGED result
       ELSE /\ calls' = settled("ok", buffer)
            /\ return(decoded[buffer])
    /\ UNCHANGED <<address, op, arg, lastSet, bridgeAddress>>

\* the 16-byte read returned Ok: checksum, decode, return; receive_frame
\* returns the frame of Some(frame) and passes an error on
try_receive_frame_read_done(buffer) ==
    /\ pc = "try_receive_frame_read"
    /\ Acked
    /\ calls' = settled("ok", buffer)
    /\ return(decoded[buffer])
    /\ stored' = bridge_stored_after(InFlight)
    /\ UNCHANGED <<address, op, arg, lastSet, bridgeAddress>>

try_receive_frame_return == \E buffer \in Responses : try_receive_frame_read_done(buffer)

---------------------------------------------------------------------------
(* receive_frame *)

receive_frame_call ==
    /\ enter("receive_frame", NoArg, write(<<2>>))
    /\ pc' = "available_frames_write"

\* mutant: no loop, the Option of a single try_receive_frame unwrapped
receive_frame_unwraps_none ==
    /\ pc = "available_frames_read"
    /\ op = "receive_frame"
    /\ Acked
    /\ stored = 0
    /\ calls' = settled("ok", <<stored>>)
    /\ return(Panicked)
    /\ UNCHANGED <<address, op, arg, lastSet, bridgeAddress, stored>>

\* try_receive_frame returned Ok(None): next iteration of the loop
receive_frame_again ==
    /\ pc = "available_frames_read"
    /\ op = "receive_frame"
    /\ Acked
    /\ stored = 0
    /\ Rounds < MaxPolls
    /\ calls' = Append(settled("ok", <<stored>>), write(<<2>>))
    /\ pc' = "available_frames_write"
    /\ UNCHANGED <<address, op, arg, result, lastSet, bridgeAddress, stored>>

---------------------------------------------------------------------------
(* Errors, cancellation, the CAN bus *)

\* mutant: a failed transport call issued once more before the error is returned
transport_error_retry(e) ==
    /\ Awaiting
    /\ IF InFlight.addr = address /\ Len(calls) < 6 /\ (Len(calls) = 1 \/ calls[Len(calls) - 1].outcome = "ok")
       THEN /\ calls' = Append(settled(e, InFlight.bytes), InFlight)
            /\ UNCHANGED <<pc, result>>
       ELSE /\ calls' = settled(e, InFlight.bytes)
            /\ return(InterfaceError(e))
    /\ UNCHANGED <<address, op, arg, lastSet, bridgeAddress, stored>>

\* a transport call returned Err(e): `?` returns Err(Error::from(e))
transport_error(e) ==
    /\ Awaiting
    /\ calls' = settled(e, InFlight.bytes)
    /\ return(InterfaceError(e))
    /\ UNCHANGED <<address, op, arg, lastSet, bridgeAddress, stored>>

\* the future of the running operation is dropped at its await; the bridge has
\* or has not seen the in-flight transaction
cancel(seen) ==
    /\ Awaiting
    /\ seen => Acked
    /\ calls' = settled("cancelled", InFlight.bytes)
    /\ return(Cancelled)
    /\ bridgeAddress' = IF seen THEN bridge_address_after(InFlight) ELSE bridgeAddress
    /\ stored' = IF seen THEN bridge_stored_after(InFlight) ELSE stored
    /\ UNCHANGED <<address, op, arg, lastSet>>

\* the bridge receives a frame from the CAN bus; when full it overwrites.
\* ("returned" is the instant of the return, not a span of time.)
can_frame_arrives ==
    /\ pc # "returned"
    /\ stored' = IF stored < BridgeCapacity THEN stored + 1 ELSE stored
    /\ UNCHANGED <<address, pc, op, arg, calls, result, lastSet, bridgeAddress>>

Next ==
    \/ caller_continues
    \/ \E value \in Addresses : set_addres_call(value)
    \/ set_addres_written
    \/ available_frames_call
    \/ available_frames_written
    \/ available_frames_return
    \/ \E value \in DOMAIN BaudRate : set_can_baud_rate_call(value)
    \/ set_can_baud_rate_written
    \/ \E frame \in Frames : send_frame_call(frame)
    \/ send_frame_written
    \/ try_receive_frame_call
    \/ try_receive_frame_none
    \/ try_receive_frame_some
    \/ try_receive_frame_written
    \/ try_receive_frame_return
    \/ receive_frame_call
    \/ receive_frame_again
    \/ \E e \in I2cErrors : transport_error(e)
    \/ \E seen \in BOOLEAN : cancel(seen)
    \/ can_frame_arrives

Spec == Init /\ [][Next]_vars

---------------------------------------------------------------------------
(* receive_frame alone, with transport calls that never fail and a bridge
   that delivers well-formed frames *)

\* a 16-byte response with a correct checksum and a length byte of at most 8
WellFormed(buffer) ==
    /\ buffer[16] = wire_checksum(SubSeq(buffer, 1, 15))
    /\ buffer[7] <= 8

WellFormedResponses == { buffer \in Responses : WellFormed(buffer) }

try_receive_frame_return_well_formed ==
    \E buffer \in WellFormedResponses : try_receive_frame_read_done(buffer)

\* a step of the running receive_frame: the executor resumes the future when
\* the awaited transport call has completed
receive_frame_step ==
    /\ op = "receive_frame"
    /\ \/ available_frames_written
       \/ receive_frame_again
       \/ try_receive_frame_some
       \/ try_receive_frame_written
       \/ try_receive_frame_return_well_formed

NextLive ==
    \/ caller_continues
    \/ receive_frame_call
    \/ receive_frame_step
    \/ can_frame_arrives

\* the future is polled to completion, and frames keep arriving from the bus
LiveSpec ==
    /\ Init
    /\ [][NextLive]_vars
    /\ WF_vars(receive_frame_step)
    /\ WF_vars(can_frame_arrives)

---------------------------------------------------------------------------
(* Properties *)

IsByte(b) == b \in 0..255

\* try_receive_frame has returned after its 16-byte read completed
TryReceiveRead ==
    /\ op = "try_receive_frame"
    /\ pc = "returned"
    /\ Len(calls) = 4
    /\ calls[4].outcome = "ok"

\* C1: once set_addres(a) has returned Ok, the stored address is a and every
\* transport call of every later operation is addressed to a, until the next
\* successful set_addres (lastSet is a, or the address of construction).
C1_CallsUseLastSetAddress ==
    IF op = "set_addres" /\ result.tag = "Ok"
    THEN lastSet = arg.value /\ address = arg.value
    ELSE \A i \in DOMAIN calls : calls[i].addr = lastSet

\* an operation that ran to completion at address 0x50, which only a
\* successful set_addres can have stored
C1_Witness ==
    /\ op = "available_frames"
    /\ result.tag = "Ok"
    /\ Len(calls) = 2
    /\ calls[1].addr = 80
    /\ calls[2].addr = 80

\* C2: set_addres writes [0x01, value] to the address stored before the call;
\* when that write fails the stored address is unchanged, the transport error
\* is returned, and the next operation's first call goes to that old address.
C2_FailedSetAddresKeepsAddress ==
    [][ /\ (pc = "idle" /\ op' = "set_addres") =>
              /\ calls'[1].addr = address
              /\ calls'[1].bytes = <<1, arg'.value>>
              /\ address' = address
        /\ (pc = "set_addres_write" /\ result'.tag = "Err") =>
              /\ address' = address
              /\ address' = lastSet'
              /\ calls'[1].addr = address'
              /\ calls'[1].outcome \in I2cErrors
              /\ result' = InterfaceError(calls'[1].outcome)
        /\ (pc = "idle" /\ pc' # "idle") => calls'[1].addr = lastSet
      ]_vars

C2_Witness ==
    /\ op = "set_addres"
    /\ pc = "returned"
    /\ result.tag = "Err"
    /\ calls[1].addr = address
    /\ address # arg.value

\* C3 as stated: after a cancellation the stored address is the address at
\* which the bridge accepts commands.
C3_CancelledAddressIsBridgeAddress ==
    result.tag = "Cancelled" => address = bridgeAddress

\* C3 as amended: a cancellation never changes the stored address, which is
\* assigned only when the set_addres write has returned Ok; and only a
\* cancelled set_addres can leave the bridge at another address than before.
C3_CancelKeepsStoredAddress ==
    [][ /\ (Awaiting /\ result'.tag = "Cancelled") =>
              /\ address' = address
              /\ (bridgeAddress' # bridgeAddress => op = "set_addres")
        /\ (address' # address) =>
              /\ pc = "set_addres_write"
              /\ calls'[1].outcome = "ok"
              /\ result'.tag = "Ok"
              /\ address' = arg.value
      ]_vars

\* a set_addres cancelled after the bridge took the new address
C3_Witness ==
    /\ op = "set_addres"
    /\ result.tag = "Cancelled"
    /\ address = lastSet
    /\ bridgeAddress = arg.value
    /\ bridgeAddress # address

\* C4: when the count byte read inside try_receive_frame is 0, the operation
\* has returned Ok(None) and its only transport calls are the [0x02] write and
\* the 1-byte read.
C4_ZeroCountNoFrameRead ==
    (/\ op = "try_receive_frame"
     /\ Len(calls) >= 2
     /\ calls[2].outcome = "ok"
     /\ calls[2].bytes = <<0>>)
    => /\ pc = "returned"
       /\ result = Ok(0, <<>>)
       /\ Len(calls) = 2
       /\ calls[1].kind = "write" /\ calls[1].bytes = <<2>>
       /\ calls[2].kind = "read"

C4_Witness ==
    /\ op = "try_receive_frame"
    /\ pc = "returned"
    /\ result = Ok(0, <<>>)
    /\ calls[2].bytes = <<0>>

\* C5: send_frame issues exactly one transport call, a write to the stored
\* address of 17 bytes: 0x30, id big-endian, extended_id as 0/1, RTR as 0/1,
\* data.len(), the data, zeros up to index 15, and the checksum of bytes 1..16.
C5_SendFrameBuffer ==
    op = "send_frame" =>
        LET f == arg.frame[1]
            b == calls[1].bytes
            n == Len(f.data)
        IN  /\ Len(calls) = 1
            /\ calls[1].kind = "write"
            /\ calls[1].addr = address
            /\ Len(b) = 17
            /\ \A i \in 1..17 : IsByte(b[i])
            /\ b[1] = 48
            /\ SubSeq(b, 2, 5) = wire_id(f.id)
            /\ b[6] = (IF f.extended_id THEN 1 ELSE 0)
            /\ b[7] = (IF f.remote_transmission_request THEN 1 ELSE 0)
            /\ b[8] = n
            /\ \A i \in 1..n : b[8 + i] = f.data[i]
            /\ \A i \in (9 + n)..16 : b[i] = 0
            /\ b[17] = wire_checksum(SubSeq(b, 2, 16))

\* an extended RTR frame with an 8-byte payload, and one with none, were sent
C5_Witness ==
    /\ op = "send_frame"
    /\ pc = "returned"
    /\ result.tag = "Ok"
    /\ arg.frame[1].id = U32(4660, 22136)
    /\ arg.frame[1].extended_id
    /\ Len(arg.frame[1].data) \in {0, 8}
    /\ calls[1].bytes[17] # 0

\* the byte sequences make_checksum was applied to by the running operation
ChecksumInputs ==
    { SubSeq(calls[i].bytes, 2, 16) :
        i \in { j \in DOMAIN calls : calls[j].kind = "write" /\ Len(calls[j].bytes) = 17 } }
    \cup
    { SubSeq(calls[i].bytes, 1, 15) :
        i \in { j \in DOMAIN calls : /\ calls[j].kind = "read"
                                     /\ Len(calls[j].bytes) = 16
                                     /\ calls[j].outcome = "ok" } }

C7_RoundTrip ==
    /\ TryReceiveRead =>
          \A f \in RxFrames : calls[4].bytes = wire_frame(f) => result = Ok(0, <<f>>)
    /\ op = "send_frame" => decode(Tail(calls[1].bytes)) = Ok(0, arg.frame)

C7_Witness ==
    /\ TryReceiveRead
    /\ calls[4].bytes = wire_frame(CanFrame(U32(4660, 22136), TRUE, TRUE, <<170, 187>>))
    /\ result.frame = <<CanFrame(U32(4660, 22136), TRUE, TRUE, <<170, 187>>)>>

\* C8: a 16-byte response whose last byte is not the checksum of the 15 before
\* it makes try_receive_frame return InvalidChecksum, whatever the length byte.
C8_BadChecksumRejected ==
    (/\ TryReceiveRead
     /\ calls[4].bytes[16] # wire_checksum(SubSeq(calls[4].bytes, 1, 15)))
    => result = InvalidChecksum

\* a stale checksum together with a length byte above 8
C8_Witness ==
    /\ TryReceiveRead
    /\ calls[4].bytes[16] # wire_checksum(SubSeq(calls[4].bytes, 1, 15))
    /\ calls[4].bytes[7] > 8
    /\ result = InvalidChecksum

\* C9: a 16-byte response with a correct checksum and a length byte above 8
\* makes try_receive_frame return DataTooLarge.
C9_LongLengthRejected ==
    (/\ TryReceiveRead
     /\ calls[4].bytes[16] = wire_checksum(SubSeq(calls[4].bytes, 1, 15))
     /\ calls[4].bytes[7] > 8)
    => result = DataTooLarge

C9_Witness ==
    /\ TryReceiveRead
    /\ calls[4].bytes[16] = wire_checksum(SubSeq(calls[4].bytes, 1, 15))
    /\ calls[4].bytes[7] = 9
    /\ result = DataTooLarge

\* C10: a transport call that failed is the last call of its operation, and
\* the operation has returned that error as InterfaceError.
C10_FirstTransportErrorReturned ==
    \A i \in DOMAIN calls :
        calls[i].outcome \in I2cErrors =>
            /\ i = Len(calls)
            /\ pc = "returned"
            /\ result = InterfaceError(calls[i].outcome)

\* the [0x02] write of try_receive_frame failed
C10_Witness ==
    /\ op = "try_receive_frame"
    /\ pc = "returned"
    /\ Len(calls) = 1
    /\ calls[1].outcome = "Bus"
    /\ result = InterfaceError("Bus")

\* the frame a well-formed 16-byte response carries
CarriedBy(frame, buffer) ==
    /\ wire_id(frame.id) = SubSeq(buffer, 1, 4)
    /\ frame.extended_id = (buffer[5] # 0)
    /\ frame.remote_transmission_request = (buffer[6] # 0)
    /\ frame.data = SubSeq(buffer, 8, 7 + buffer[7])

\* receive_frame has returned the frame of its last 16-byte read
ReceiveFrameReturnedFrame ==
    /\ op = "receive_frame"
    /\ pc = "returned"
    /\ result.tag = "Ok"
    /\ Len(result.frame) = 1
    /\ InFlight.kind = "read"
    /\ InFlight.outcome = "ok"
    /\ WellFormed(InFlight.bytes)
    /\ CarriedBy(result.frame[1], InFlight.bytes)

\* every count the running operation has read so far is 0
OnlyZeroCounts ==
    \A i \in DOMAIN calls :
        (calls[i].kind = "read" /\ Len(calls[i].bytes) = 1 /\ calls[i].outcome = "ok")
            => calls[i].bytes = <<0>>

\* C11: with transport calls that never fail and frames arriving at the
\* bridge, a running receive_frame eventually returns the well-formed frame
\* it reads; as long as every count it has read is 0 it has not returned and
\* its last call is the write or the read of a count query.
C11_ReceiveFrameTerminates ==
    /\ (op = "receive_frame" /\ Awaiting) ~> ReceiveFrameReturnedFrame
    /\ []((op = "receive_frame" /\ OnlyZeroCounts) =>
            /\ pc \in {"available_frames_write", "available_frames_read"}
            /\ InFlight.outcome = "pending"
            /\ InFlight.bytes \in {<<2>>, <<0>>})

\* receive_frame returned a frame in its second round, the first count being 0
C11_Witness ==
    /\ ReceiveFrameReturnedFrame
    /\ Len(calls) = 6
    /\ calls[2].bytes = <<0>>
    /\ calls[4].bytes # <<0>>

\* C12: available_frames writes [0x02] once, then reads one byte once, both at
\* the stored address and in that order; it returns the byte read, which is
\* the number of frames the bridge holds, between 0 and 16.
C12_AvailableFramesCount ==
    op = "available_frames" =>
        /\ Len(calls) \in 1..2
        /\ calls[1].kind = "write" /\ calls[1].addr = address
        /\ calls[1].bytes = <<2>>
        /\ Len(calls) = 2 =>
                /\ calls[1].outcome = "ok"
                /\ calls[2].kind = "read" /\ calls[2].addr = address
                /\ Len(calls[2].bytes) = 1
        /\ (pc = "returned" /\ result.tag = "Ok") =>
                /\ Len(calls) = 2
                /\ calls[2].outcome = "ok"
                /\ result = Ok(calls[2].bytes[1], <<>>)
                /\ result.count = stored
                /\ result.count \in 0..BridgeCapacity

\* available_frames returned the count of a full bridge buffer
C12_Witness ==
    /\ op = "available_frames"
    /\ pc = "returned"
    /\ result = Ok(BridgeCapacity, <<>>)
    /\ calls[2].bytes = <<BridgeCapacity>>

\* the wire code of each rate, as the bridge's protocol lists them
WireCodes ==
    << <<"K5", 1>>, <<"K10", 2>>, <<"K20", 3>>, <<"K25", 4>>, <<"K31_2", 5>>,
       <<"K33", 6>>, <<"K40", 7>>, <<"K50", 8>>, <<"K80", 9>>, <<"K83_3", 10>>,
       <<"K95", 11>>, <<"K100", 12>>, <<"K125", 13>>, <<"K200", 14>>,
       <<"K250", 15>>, <<"K500", 16>>, <<"K666", 17>>, <<"K1000", 18>> >>

WireCode(rate) == WireCodes[CHOOSE i \in DOMAIN WireCodes : WireCodes[i][1] = rate][2]

\* C13: set_can_baud_rate makes one transport call, the write [0x03, code] at
\* the stored address, code being the listed wire code of the rate (K500: 16),
\* between 1 and 18; the 18 rates have 18 different codes.
C13_BaudRateWrite ==
    /\ op = "set_can_baud_rate" =>
        /\ Len(calls) = 1
        /\ calls[1].kind = "write" /\ calls[1].addr = address
        /\ calls[1].bytes = <<3, WireCode(arg.rate)>>
        /\ calls[1].bytes[2] \in 1..18
        /\ arg.rate = "K500" => calls[1].bytes = <<3, 16>>
        /\ (pc = "returned" /\ result.tag = "Ok") => calls[1].outcome = "ok"
    /\ Cardinality(DOMAIN BaudRate) = 18
    /\ Cardinality({ BaudRate[rate] : rate \in DOMAIN BaudRate }) = 18

\* set_can_baud_rate(K500) returned Ok
C13_Witness ==
    /\ op = "set_can_baud_rate"
    /\ arg.rate = "K500"
    /\ pc = "returned"
    /\ result.tag = "Ok"
    /\ calls[1].bytes = <<3, 16>>

\* the transport calls of one try_receive_frame round, in program order
RoundCalls == << [kind |-> "write", len |-> 1], [kind |-> "read", len |-> 1],
                 [kind |-> "write", len |-> 1], [kind |-> "read", len |-> 16] >>

\* C14: the calls of a try_receive_frame are, in this order and all at the
\* stored address, write [0x02], read 1 byte, write [0x40], read 16 bytes, each
\* begun after the one before it returned Ok; when the count read is not 0 and
\* no call failed, the operation returns after exactly these four, and a frame
\* it returns is the decoding of the bytes of the 16-byte read.
C14_FourCallsInOrder ==
    op = "try_receive_frame" =>
        /\ Len(calls) \in 1..4
        /\ \A i \in DOMAIN calls :
                /\ calls[i].kind = RoundCalls[i].kind
                /\ Len(calls[i].bytes) = RoundCalls[i].len
                /\ calls[i].addr = address
                /\ i < Len(calls) => calls[i].outcome = "ok"
        /\ calls[1].bytes = <<2>>
        /\ Len(calls) >= 3 => calls[2].bytes # <<0>> /\ calls[3].bytes = <<64>>
        /\ (/\ pc = "returned"
            /\ Len(calls) >= 2
            /\ calls[2].outcome = "ok"
            /\ calls[2].bytes # <<0>>
            /\ result.tag # "Cancelled"
            /\ result.err # "InterfaceError")
           => /\ Len(calls) = 4
              /\ calls[4].outcome = "ok"
        /\ (result.tag = "Ok" /\ result.frame # <<>>)
           => /\ Len(calls) = 4
              /\ calls[4].outcome = "ok"
              /\ Len(result.frame) = 1
              /\ CarriedBy(result.frame[1], calls[4].bytes)

\* try_receive_frame returned a frame after a count of 2
C14_Witness ==
    /\ TryReceiveRead
    /\ calls[2].bytes = <<2>>
    /\ result.tag = "Ok"
    /\ Len(result.frame) = 1
    /\ result.frame[1].data = <<170, 187>>

\* call i of the log begins a try_receive_frame round
BeginsRound(i) == calls[i].kind = "write" /\ calls[i].bytes = <<2>>

\* call i + 1 is what the loop of receive_frame issues after call i returned Ok
FollowsInLoop(i) ==
    LET this == calls[i]
        next == calls[i + 1]
    IN  /\ this.outcome = "ok"
        /\ \/ /\ BeginsRound(i)
              /\ next.kind = "read" /\ Len(next.bytes) = 1
           \/ /\ this.kind = "read" /\ this.bytes = <<0>>
              /\ BeginsRound(i + 1)
           \/ /\ this.kind = "read" /\ Len(this.bytes) = 1 /\ this.bytes # <<0>>
              /\ next.kind = "write" /\ next.bytes = <<64>>
           \/ /\ this.kind = "write" /\ this.bytes = <<64>>
              /\ next.kind = "read" /\ Len(next.bytes) = 16

\* C15: the calls of a receive_frame are try_receive_frame rounds one after
\* the other: a count of 0 is followed at once by the [0x02] write of the next
\* round, and nothing follows a failed call or a 16-byte read. A frame is
\* returned only as the decoding of the last call, a 16-byte read; an error is
\* returned with the failed call, or the 16-byte read that does not decode,
\* as the last call.
C15_ReceiveFrameRounds ==
    op = "receive_frame" =>
        /\ Len(calls) >= 1
        /\ BeginsRound(1)
        /\ \A i \in 1..(Len(calls) - 1) : FollowsInLoop(i)
        /\ ~(InFlight.kind = "read" /\ InFlight.bytes = <<0>> /\ InFlight.outcome = "ok")
        /\ result.tag = "Ok" =>
                /\ pc = "returned"
                /\ Len(result.frame) = 1
                /\ InFlight.kind = "read" /\ Len(InFlight.bytes) = 16
                /\ InFlight.outcome = "ok"
                /\ result = decode(InFlight.bytes)
                /\ CarriedBy(result.frame[1], InFlight.bytes)
        /\ result.tag = "Err" =>
                /\ pc = "returned"
                /\ \/ /\ result.err = "InterfaceError"
                      /\ InFlight.outcome \in I2cErrors
                      /\ result.inner = InFlight.outcome
                   \/ /\ result.err \in {"InvalidChecksum", "DataTooLarge"}
                      /\ InFlight.kind = "read" /\ Len(InFlight.bytes) = 16
                      /\ InFlight.outcome = "ok"
                      /\ result = decode(InFlight.bytes)
        /\ pc = "returned" => result.tag \in {"Ok", "Err", "Cancelled"}

\* receive_frame returned a checksum error from its second round
C15_Witness ==
    /\ op = "receive_frame"
    /\ pc = "returned"
    /\ result = InvalidChecksum
    /\ Len(calls) = 6
    /\ calls[2].bytes = <<0>>
    /\ BeginsRound(3)

\* the calls of the log that are [0x40] writes, and those that are 16-byte reads
FrameCommands == { i \in DOMAIN calls : calls[i].kind = "write" /\ calls[i].bytes = <<64>> }
FrameReads    == { i \in DOMAIN calls : calls[i].kind = "read" /\ Len(calls[i].bytes) = 16 }

\* the running operation ended with a frame that did not decode
DecodeFailed == result.err \in {"InvalidChecksum", "DataTooLarge"}

\* C16: try_receive_frame, alone or as a round of receive_frame, writes
\* [0x40] at most once and reads 16 bytes at most once; when the response
\* does not decode, the operation returns the error with that read as its
\* last call, and the step that completes the read leaves the bridge with one
\* stored frame fewer.
C16_FailedDecodeDiscardsFrame ==
    /\ [](op \in {"try_receive_frame", "receive_frame"} =>
            /\ Cardinality(FrameCommands) <= 1
            /\ Cardinality(FrameReads) <= 1
            /\ DecodeFailed =>
                    /\ pc = "returned"
                    /\ FrameReads = {Len(calls)}
                    /\ FrameCommands = {Len(calls) - 1}
                    /\ InFlight.outcome = "ok")
    /\ [][(pc = "try_receive_frame_read" /\ DecodeFailed')
            => /\ stored > 0
               /\ stored' = stored - 1
               /\ Len(calls') = Len(calls)]_vars

\* try_receive_frame returned DataTooLarge, the bridge having held 2 frames
\* when asked and holding 1 now
C16_Witness ==
    /\ TryReceiveRead
    /\ result = DataTooLarge
    /\ calls[2].bytes = <<2>>
    /\ stored = 1

\* try_receive_frame or receive_frame has returned a frame
FrameProduced ==
    /\ op \in {"try_receive_frame", "receive_frame"}
    /\ result.tag = "Ok"
    /\ Len(result.frame) = 1

\* the identifier invariant of a frame: below 2^11, or below 2^29 when extended
IdInRange(frame) ==
    IF frame.extended_id THEN frame.id.hi < 2^13
    ELSE frame.id.hi = 0 /\ frame.id.lo < 2^11

\* the same, of the identifier and flag bytes of a response
WireIdInRange(buffer) ==
    IF buffer[5] # 0 THEN buffer[1] < 2^5
    ELSE buffer[1] = 0 /\ buffer[2] = 0 /\ buffer[3] < 2^3

\* C17 as stated: every frame returned by try_receive_frame or receive_frame
\* has its identifier in range.
C17_ProducedFrameIdInRange == FrameProduced => IdInRange(result.frame[1])

\* C17 as amended: a returned frame has the identifier and the extended flag
\* of the response as they are, bytes 0..3 big-endian and byte 4 other than 0,
\* so its identifier is in range exactly when that of the response is.
C17_ProducedFrameIdAsReceived ==
    FrameProduced =>
        /\ wire_id(result.frame[1].id) = SubSeq(InFlight.bytes, 1, 4)
        /\ result.frame[1].extended_id = (InFlight.bytes[5] # 0)
        /\ IdInRange(result.frame[1]) = WireIdInRange(InFlight.bytes)

\* a frame was returned with an extended identifier of 2^29 or more, from a
\* response with the right checksum
C17_Witness ==
    /\ FrameProduced
    /\ result.frame[1].extended_id
    /\ result.frame[1].id = U32(65535, 65535)
    /\ InFlight.bytes[16] = wire_checksum(SubSeq(InFlight.bytes, 1, 15))
    /\ ~IdInRange(result.frame[1])

\* C18: when the 16-byte read of try_receive_frame has completed, the result
\* is InvalidChecksum if byte 15 is not the checksum of bytes 0..14, otherwise
\* DataTooLarge if byte 6 is above 8, otherwise one frame whose data are the
\* bytes 7..7+len, len being byte 6; it is never a panic, the conversions of
\* lines 87 and 96 succeeding for every length up to 8.
C18_ExactlyOneOutcome ==
    /\ TryReceiveRead =>
        LET buffer == calls[4].bytes
            bad_checksum == buffer[16] # wire_checksum(SubSeq(buffer, 1, 15))
            too_long == buffer[7] > 8
        IN  /\ result \in {InvalidChecksum, DataTooLarge} \/ result.tag = "Ok"
            /\ result # Panicked
            /\ result = InvalidChecksum <=> bad_checksum
            /\ result = DataTooLarge <=> (~bad_checksum /\ too_long)
            /\ result.tag = "Ok" <=> (~bad_checksum /\ ~too_long)
            /\ result.tag = "Ok" =>
                    /\ Len(result.frame) = 1
                    /\ Len(result.frame[1].data) = buffer[7]
                    /\ buffer[7] <= 8
                    /\ result.frame[1].data = [i \in 1..buffer[7] |-> buffer[7 + i]]
    /\ \A n \in 0..DataCapacity :
            /\ slice_in_range(zeros(16), 7, n)
            /\ array_vec_try_from(zeros(n))
    /\ try_into_4(SubSeq(zeros(16), 1, 4))

\* try_receive_frame returned a frame of 8 data bytes
C18_Witness ==
    /\ TryReceiveRead
    /\ result.tag = "Ok"
    /\ calls[4].bytes[7] = 8
    /\ result.frame[1].data = <<255, 255, 255, 255, 255, 255, 255, 255>>

\* C19: a step changes the stored address only when it is the [0x01, value]
\* write of set_addres returning Ok, and then to value; so every other
\* operation leaves it as it was, however it ends. All calls of the running
\* operation have one address, which for every operation but set_addres is
\* the stored one.
C19_OnlySetAddresChangesAddress ==
    /\ [][address' # address =>
            /\ op = "set_addres"
            /\ pc = "set_addres_write"
            /\ pc' = "returned"
            /\ result' = Ok(0, <<>>)
            /\ calls'[1].outcome = "ok"
            /\ address' = arg.value]_vars
    /\ [](\A i, j \in DOMAIN calls : calls[i].addr = calls[j].addr)
    /\ [](op \notin {"none", "set_addres"} =>
            \A i \in DOMAIN calls : calls[i].addr = address)

\* a try_receive_frame cancelled at its 16-byte read, the address having been
\* set to 80 before
C19_Witness ==
    /\ op = "try_receive_frame"
    /\ result = Cancelled
    /\ Len(calls) = 4
    /\ address = 80
    /\ \A i \in DOMAIN calls : calls[i].addr = 80

\* the running operation is between the count query that found frames and the
\* completion of the 16-byte read
FrameReadPending == pc \in {"try_receive_frame_write", "try_receive_frame_read"}

\* C20: from the count query that returned a count above 0 to the completion
\* of the 16-byte read, the bridge holds at least one frame, and no fewer
\* than the count said: frames arriving meanwhile, the one that overwrites
\* the oldest of a full buffer included, never lower the number held.
C20_FrameReadFindsFrame ==
    FrameReadPending =>
        /\ stored > 0
        /\ stored <= BridgeCapacity
        /\ calls[Len(calls) - (IF pc = "try_receive_frame_write" THEN 1 ELSE 2)].bytes[1] \in 1..stored

\* the 16-byte read is in flight, the count having been 1 and the bridge
\* having filled up since
C20_Witness ==
    /\ pc = "try_receive_frame_read"
    /\ op = "try_receive_frame"
    /\ calls[2].bytes = <<1>>
    /\ stored = BridgeCapacity

=============================================================================
